---- MODULE Spec2Model ----
(***************************************************************************)
(* Model of the email spam detection service: the in-memory result cache   *)
(* of app/main.py (email_cache and its put / get / sweep operations), the  *)
(* per-browser session, the request handlers that read and write them,     *)
(* the Gmail client's trash loop and the classifier's label rule.          *)
(*                                                                         *)
(* Python strings are sequences of one-character strings, so that          *)
(* lower(), strip(), endswith() and the `in` substring test are computed   *)
(* and not assumed.  A spreadsheet or dict value is a cell: a record       *)
(* [t, s] with t = "str" (s the text), t = "nan" (pandas' empty cell) or   *)
(* t = "absent" (the key is not in the dict).                              *)
(*                                                                         *)
(* Time is a counter of clock units; TTL is counted in the same unit.      *)
(* Every dt.now() in the code is a separate reading of the clock: inside   *)
(* one handler the clock may step once between two readings.               *)
(***************************************************************************)
EXTENDS Integers, Sequences, FiniteSets, TLC

VARIABLES now, email_cache, session, nextUid, trashed, inflight, task, resp, lastPut

vars == <<now, email_cache, session, nextUid, trashed, inflight, task, resp, lastPut>>

(* ------------------------------ bounds -------------------------------- *)

MaxTime == 3

(* the identifiers uuid4 may return, in the order it returns them; 0 is  *)
(* no identifier                                                         *)
OwnerIds == {1, 2}

(* timedelta(hours=2) *)
TTL == 2

Browsers == {"b1"}

(* ------------------------------ strings ------------------------------- *)

UpperCase == <<"A","B","C","D","E","F","G","H","I","J","K","L","M",
               "N","O","P","Q","R","S","T","U","V","W","X","Y","Z">>

LowerCase == <<"a","b","c","d","e","f","g","h","i","j","k","l","m",
               "n","o","p","q","r","s","t","u","v","w","x","y","z">>

LowerChar(c) ==
    IF \E i \in 1..26 : UpperCase[i] = c
    THEN LowerCase[CHOOSE i \in 1..26 : UpperCase[i] = c]
    ELSE c

(* str.lower() *)
Lower(s) == [i \in 1..Len(s) |-> LowerChar(s[i])]

IsSpace(c) == c \in {" ", "\t", "\n", "\r"}

RECURSIVE LStrip(_)
LStrip(s) == IF s # <<>> /\ IsSpace(Head(s)) THEN LStrip(Tail(s)) ELSE s

RECURSIVE RStrip(_)
RStrip(s) ==
    IF s # <<>> /\ IsSpace(s[Len(s)]) THEN RStrip(SubSeq(s, 1, Len(s) - 1)) ELSE s

(* str.strip() *)
Strip(s) == RStrip(LStrip(s))

(* str.endswith(suffix) *)
EndsWith(s, suffix) ==
    /\ Len(s) >= Len(suffix)
    /\ SubSeq(s, Len(s) - Len(suffix) + 1, Len(s)) = suffix

(* Python's `sub in s` on strings *)
Contains(s, sub) ==
    \E i \in 1..(Len(s) - Len(sub) + 1) : SubSeq(s, i, i + Len(sub) - 1) = sub

SPAM == <<"s","p","a","m">>

NOT_SPAM == <<"n","o","t","-","s","p","a","m">>

(* ------------------------------- cells -------------------------------- *)

StrCell(s) == [t |-> "str", s |-> s]

NaN == [t |-> "nan", s |-> <<>>]

Absent == [t |-> "absent", s |-> <<>>]

(* str(v) of a cell that is present *)
PyStr(v) == IF v.t = "nan" THEN <<"n","a","n">> ELSE v.s

(* e.get(key, "") *)
GetOrEmpty(v) == IF v.t = "absent" THEN StrCell(<<>>) ELSE v

(* ---------------------------- classifier ------------------------------ *)

(* SpamClassifier.classify_email: the label computed from the generated text *)
classify_email(generated_text) ==
    LET output == Lower(Strip(generated_text))
    IN  IF Contains(output, SPAM) THEN SPAM ELSE NOT_SPAM

(* mutant: the prediction is lower-cased but not trimmed *)
IsSpamPrediction_NoStrip(e) ==
    Lower(PyStr(GetOrEmpty(e.prediction))) = SPAM

(* the test `str(e.get("prediction", "")).lower().strip() == "spam"` *)
IsSpamPrediction(e) ==
    Strip(Lower(PyStr(GetOrEmpty(e.prediction)))) = SPAM

(* sum(1 for e in emails if <prediction is spam>) *)
SpamCount(emails) ==
    Cardinality({i \in 1..Len(emails) : IsSpamPrediction(emails[i])})

(* [str(e["id"]) for e in emails if <prediction is spam>] *)
RECURSIVE SpamIds(_)
SpamIds(emails) ==
    IF emails = <<>> THEN <<>>
    ELSE IF IsSpamPrediction(Head(emails))
         THEN <<PyStr(Head(emails).id)>> \o SpamIds(Tail(emails))
         ELSE SpamIds(Tail(emails))

(* --------------------------- Gmail client ----------------------------- *)

(* GmailService.move_emails_to_trash: one trash call per id, in order.    *)
(* failAt is the position of the first call that raises (0: none does);   *)
(* a call that raises has not trashed its message.  calls are the ids a   *)
(* call was issued for, done the ids whose call returned.                 *)
RECURSIVE TrashLoop(_, _, _, _)
TrashLoop(message_ids, i, failAt, acc) ==
    IF i > Len(message_ids) THEN acc
    ELSE IF i = failAt
         THEN [acc EXCEPT !.raised = TRUE,
                          !.calls = Append(acc.calls, message_ids[i])]
         ELSE TrashLoop(message_ids, i + 1, failAt,
                        [acc EXCEPT !.calls = Append(acc.calls, message_ids[i]),
                                    !.done = Append(acc.done, message_ids[i]),
                                    !.count = acc.count + 1])

(* mutant: the loop goes on after the call that fails *)
RECURSIVE TrashLoop_GoOn(_, _, _, _)
TrashLoop_GoOn(message_ids, i, failAt, acc) ==
    IF i > Len(message_ids) THEN acc
    ELSE IF i = failAt
         THEN TrashLoop_GoOn(message_ids, i + 1, failAt,
                             [acc EXCEPT !.raised = TRUE,
                                         !.calls = Append(acc.calls, message_ids[i])])
         ELSE TrashLoop_GoOn(message_ids, i + 1, failAt,
                        [acc EXCEPT !.calls = Append(acc.calls, message_ids[i]),
                                    !.done = Append(acc.done, message_ids[i]),
                                    !.count = acc.count + 1])

move_emails_to_trash_GoOn(message_ids, failAt) ==
    TrashLoop_GoOn(message_ids, 1, failAt,
                   [raised |-> FALSE, calls |-> <<>>, done |-> <<>>, count |-> 0])

move_emails_to_trash(message_ids, failAt) ==
    TrashLoop(message_ids, 1, failAt,
              [raised |-> FALSE, calls |-> <<>>, done |-> <<>>, count |-> 0])

(* --------------------------- result cache ----------------------------- *)

(* email_cache is a Python dict: a sequence of entries in insertion order, *)
(* one per key.                                                            *)
HasKey(cache, user_id) == \E i \in 1..Len(cache) : cache[i].uid = user_id

IndexOf(cache, user_id) == CHOOSE i \in 1..Len(cache) : cache[i].uid = user_id

Entry(cache, user_id) == cache[IndexOf(cache, user_id)]

(* del cache[user_id] *)
DelKey(cache, user_id) == SelectSeq(cache, LAMBDA e : e.uid # user_id)

(* mutant: a put adds an entry and leaves the owner's old one *)
store_user_emails_Append(cache, user_id, emails, source, t1, t2) ==
    Append(cache, [uid |-> user_id, emails |-> emails, source |-> source,
                   created_at |-> t1, expires_at |-> t2 + TTL])

(* store_user_emails; t1 and t2 are its two readings of dt.now() *)
store_user_emails(cache, user_id, emails, source, t1, t2) ==
    LET e == [uid |-> user_id, emails |-> emails, source |-> source,
              created_at |-> t1, expires_at |-> t2 + TTL]
    IN  IF HasKey(cache, user_id)
        THEN [cache EXCEPT ![IndexOf(cache, user_id)] = e]
        ELSE Append(cache, e)

(* mutant: the entry counts as expired from expires_at on *)
get_user_emails_Early(cache, user_id, t) ==
    IF ~HasKey(cache, user_id)
    THEN [cache |-> cache, found |-> FALSE, emails |-> <<>>, source |-> "None"]
    ELSE LET cached == Entry(cache, user_id)
         IN  IF t >= cached.expires_at
             THEN [cache |-> DelKey(cache, user_id), found |-> FALSE,
                   emails |-> <<>>, source |-> "None"]
             ELSE [cache |-> cache, found |-> TRUE,
                   emails |-> cached.emails, source |-> cached.source]

(* mutant: an expired entry is reported absent and left in the cache *)
get_user_emails_NoDelete(cache, user_id, t) ==
    IF ~HasKey(cache, user_id)
    THEN [cache |-> cache, found |-> FALSE, emails |-> <<>>, source |-> "None"]
    ELSE LET cached == Entry(cache, user_id)
         IN  IF t > cached.expires_at
             THEN [cache |-> cache, found |-> FALSE,
                   emails |-> <<>>, source |-> "None"]
             ELSE [cache |-> cache, found |-> TRUE,
                   emails |-> cached.emails, source |-> cached.source]

(* get_user_emails; t is its reading of dt.now() *)
get_user_emails(cache, user_id, t) ==
    IF ~HasKey(cache, user_id)
    THEN [cache |-> cache, found |-> FALSE, emails |-> <<>>, source |-> "None"]
    ELSE LET cached == Entry(cache, user_id)
         IN  IF t > cached.expires_at
             THEN [cache |-> DelKey(cache, user_id), found |-> FALSE,
                   emails |-> <<>>, source |-> "None"]
             ELSE [cache |-> cache, found |-> TRUE,
                   emails |-> cached.emails, source |-> cached.source]

(* The clock reading number i of a handler that started at time t0 and    *)
(* during which the clock steps just before reading number k.             *)
Reading(t0, k, i) == IF i >= k THEN t0 + 1 ELSE t0

(* mutant: the sweep removes an entry from expires_at on *)
cleanup_expired_cache_Early(cache, t0, k) ==
    LET expired == {cache[i].uid : i \in {j \in 1..Len(cache) :
                                           Reading(t0, k, j) >= cache[j].expires_at}}
    IN  SelectSeq(cache, LAMBDA e : e.uid \notin expired)

(* cleanup_expired_cache: entry number i is compared with reading number i *)
cleanup_expired_cache(cache, t0, k) ==
    LET expired == {cache[i].uid : i \in {j \in 1..Len(cache) :
                                           Reading(t0, k, j) > cache[j].expires_at}}
    IN  SelectSeq(cache, LAMBDA e : e.uid \notin expired)

(* ------------------------------- dates -------------------------------- *)

Digits == <<"0","1","2","3","4","5","6","7","8","9">>

IsDigit(c) == \E i \in 1..10 : Digits[i] = c

DigitVal(c) == (CHOOSE i \in 1..10 : Digits[i] = c) - 1

AllDigits(f) == \A i \in 1..Len(f) : IsDigit(f[i])

RECURSIVE NumVal(_)
NumVal(f) ==
    IF f = <<>> THEN 0 ELSE 10 * NumVal(SubSeq(f, 1, Len(f) - 1)) + DigitVal(f[Len(f)])

(* s.split("-") *)
RECURSIVE SplitDash(_, _)
SplitDash(s, cur) ==
    IF s = <<>> THEN <<cur>>
    ELSE IF Head(s) = "-" THEN <<cur>> \o SplitDash(Tail(s), <<>>)
    ELSE SplitDash(Tail(s), Append(cur, Head(s)))

(* strptime's %d: 3[0-1] | [1-2]\d | 0[1-9] | [1-9] | " "[1-9] *)
DayField(f) ==
    \/ Len(f) = 2 /\ AllDigits(f) /\ NumVal(f) \in 1..31
    \/ Len(f) = 1 /\ AllDigits(f) /\ NumVal(f) \in 1..9
    \/ Len(f) = 2 /\ f[1] = " " /\ IsDigit(f[2]) /\ DigitVal(f[2]) \in 1..9

(* strptime's %m: 1[0-2] | 0[1-9] | [1-9] *)
MonthField(f) ==
    \/ Len(f) = 2 /\ AllDigits(f) /\ NumVal(f) \in 1..12
    \/ Len(f) = 1 /\ AllDigits(f) /\ NumVal(f) \in 1..9

(* strptime's %Y: \d\d\d\d *)
YearField(f) == Len(f) = 4 /\ AllDigits(f)

IsLeap(y) == (y % 4 = 0 /\ y % 100 # 0) \/ y % 400 = 0

DaysInMonth(y, m) ==
    IF m = 2 THEN (IF IsLeap(y) THEN 29 ELSE 28)
    ELSE IF m \in {4, 6, 9, 11} THEN 30 ELSE 31

NoDate == [ok |-> FALSE, d |-> 0, m |-> 0, y |-> 0]

(* the date (fd, fm, fy) are the fields of, when datetime accepts it *)
FieldsToDate(fd, fm, fy) ==
    IF DayField(fd) /\ MonthField(fm) /\ YearField(fy)
    THEN LET d == NumVal(LStrip(fd))
             m == NumVal(fm)
             y == NumVal(fy)
         IN  IF y >= 1 /\ d <= DaysInMonth(y, m)
             THEN [ok |-> TRUE, d |-> d, m |-> m, y |-> y]
             ELSE NoDate
    ELSE NoDate

(* datetime.strptime(s, fmt) for the two formats of normalize *)
Strptime(s, fmt) ==
    LET f == SplitDash(s, <<>>)
    IN  IF Len(f) # 3 THEN NoDate
        ELSE IF fmt = "%d-%m-%Y" THEN FieldsToDate(f[1], f[2], f[3])
        ELSE FieldsToDate(f[3], f[2], f[1])

TwoDigits(n) == <<Digits[(n \div 10) + 1], Digits[(n % 10) + 1]>>

(* strftime("%d-%m-%Y") *)
Strftime(dt) ==
    TwoDigits(dt.d) \o <<"-">> \o TwoDigits(dt.m) \o <<"-">>
      \o TwoDigits(dt.y \div 100) \o TwoDigits(dt.y % 100)

(* mutant: the second format is read as year-day-month *)
normalize_YDM(s) ==
    LET a == Strptime(s, "%d-%m-%Y")
        f == SplitDash(s, <<>>)
        b == IF Len(f) # 3 THEN NoDate ELSE FieldsToDate(f[2], f[3], f[1])
    IN  IF a.ok THEN [ok |-> TRUE, value |-> Strftime(a)]
        ELSE IF b.ok THEN [ok |-> TRUE, value |-> Strftime(b)]
        ELSE [ok |-> FALSE, value |-> <<>>]

(* fetch_emails.normalize: ok is FALSE where it raises the 400 *)
normalize(s) ==
    LET a == Strptime(s, "%d-%m-%Y")
        b == Strptime(s, "%Y-%m-%d")
    IN  IF a.ok THEN [ok |-> TRUE, value |-> Strftime(a)]
        ELSE IF b.ok THEN [ok |-> TRUE, value |-> Strftime(b)]
        ELSE [ok |-> FALSE, value |-> <<>>]


(* ------------------------------ inputs -------------------------------- *)

Msg(id) == [id |-> StrCell(id), prediction |-> Absent]

M1 == <<"m","1">>

M2 == <<"m","2">>

(* what a fetch may bring: the messages GmailService returns for the date *)
(* range, and the text the generation model produces for each of them     *)
FetchCases ==
    { [emails |-> <<>>, outs |-> <<>>],
      [emails |-> <<Msg(M1), Msg(M2)>>, outs |-> <<SPAM, <<"n","o">> >>] }

D_DMY == <<"0","5","-","0","6","-","2","0","2","4">>

D_YMD == <<"2","0","2","4","-","0","6","-","0","5">>

D_BAD == <<"2","0","2","4","-","1","3","-","4","0">>

D_TEXT == <<"n","o","t","-","a","-","d","a","t","e">>

(* the (start_date, end_date) pairs a form may carry *)
DatePairs == { <<D_DMY, D_YMD>>, <<D_BAD, D_DMY>>, <<D_YMD, D_TEXT>> }

XlsxName == <<"F",".","X","l","s","x">>

CsvName == <<"f",".","c","s","v">>

IdPrediction == << <<"i","d">>, <<"p","r","e","d","i","c","t","i","o","n">> >>

(* the sheets a user may upload: header row and data rows *)
UploadSheets == <<
    [header |-> << <<"P","r","e","d","i","c","t","i","o","n">>, <<" ","I","D"," ">> >>,
     rows |-> << <<StrCell(<<"S","p","a","m"," ">>), StrCell(M2)>>,
                 <<StrCell(SPAM), StrCell(M1)>> >>],
    [header |-> IdPrediction,
     rows |-> << <<StrCell(M1), NaN>> >>],
    [header |-> IdPrediction, rows |-> << >>],
    [header |-> << <<"i","d">>, <<"l","a","b","e","l">> >>,
     rows |-> << <<StrCell(M1), StrCell(SPAM)>> >>]
  >>

(* ---------------------------- spreadsheets ---------------------------- *)

(* a cell of a workbook: a string, or empty *)
TextCell(s) == [t |-> "text", s |-> s]

EmptyCell == [t |-> "empty", s |-> <<>>]

NoFile == [header |-> <<>>, rows |-> <<>>]

(* the column names download_results asks for, of which a message of the  *)
(* model carries id and prediction                                        *)
column_order == IdPrediction

(* DataFrame.to_excel writes a missing value (None, NaN, a key the dict   *)
(* lacks) as an empty cell and a string as text                           *)
ToExcelCell(v) == IF v.t = "str" THEN TextCell(v.s) ELSE EmptyCell

(* mutant: the cells of a row are written in the other order *)
ToExcel_Swapped(emails) ==
    [header |-> column_order,
     rows |-> [i \in 1..Len(emails) |->
                 <<ToExcelCell(emails[i].prediction), ToExcelCell(emails[i].id)>>]]

(* pd.DataFrame(emails)[column_order].to_excel(index=False) *)
ToExcel(emails) ==
    [header |-> column_order,
     rows |-> [i \in 1..Len(emails) |->
                 <<ToExcelCell(emails[i].id), ToExcelCell(emails[i].prediction)>>]]

(* some of the texts pd.read_excel takes for a missing value *)
na_values ==
    { <<>>, <<"n","a","n">>, <<"N","a","N">>, <<"N","A">>, <<"N","/","A">>,
      <<"n","u","l","l">>, <<"N","U","L","L">>, <<"N","o","n","e">> }

(* pd.read_excel reads an empty cell, and a text of na_values, as NaN *)
FromExcelCell(c) ==
    IF c.t = "empty" \/ c.s \in na_values THEN NaN ELSE StrCell(c.s)

(* pd.read_excel(io.BytesIO(contents)) *)
read_excel(contents) ==
    [header |-> contents.header,
     rows |-> [i \in 1..Len(contents.rows) |->
                 [j \in 1..Len(contents.rows[i]) |->
                     FromExcelCell(contents.rows[i][j])]]]

SpamResults == <<"s","p","a","m","_","r","e","s","u","l","t","s",".","x","l","s","x">>

SpamResultsCorrected ==
    <<"s","p","a","m","_","r","e","s","u","l","t","s","_",
      "c","o","r","r","e","c","t","e","d",".","x","l","s","x">>

(* ------------------------------- state -------------------------------- *)

NoSession == [credentials |-> "none", user_id |-> 0]

NoUpload == [active |-> FALSE, user_id |-> 0, filename |-> <<>>]

(* the request the event loop is running statement by statement: where   *)
(* it is, the owner_id it read from its session, the owner_ids its sweep  *)
(* has still to delete, and whether one of its deletes met a key that was *)
(* gone ("KeyError") or an entry that was live ("live")                   *)
NoTask == [pc |-> "idle", b |-> "none", user_id |-> 0, expired |-> <<>>,
           collision |-> "none"]

NoPut == [some |-> FALSE, uid |-> 0, emails |-> <<>>, source |-> "None"]

(* resp is the last response given: found, emails and source are what     *)
(* _get_active_results returned to the handler; k is where the clock      *)
(* stepped among the handler's readings; removed counts the entries the   *)
(* sweep deleted, evicted tells what deleted the session's own entry;     *)
(* filename and export are the attachment download-results sends, file    *)
(* and sheet the name and the content of the workbook upload-corrections  *)
(* was sent, dates the form fetch-emails was sent and query the dates it  *)
(* passed to fetch_emails_by_date_range (none if it did not call it),     *)
(* outs the texts the generation model produced, refreshed whether the    *)
(* request refreshed the session's credential.                            *)
NoResp ==
    [op |-> "none", b |-> "none", status |-> 0,
     found |-> FALSE, emails |-> <<>>, source |-> "None",
     total |-> 0, spam |-> 0, moved |-> 0,
     ids |-> <<>>, calls |-> <<>>, done |-> <<>>,
     k |-> 0, removed |-> 0, evicted |-> "none", replaced |-> FALSE,
     filename |-> <<>>, export |-> NoFile,
     file |-> <<>>, sheet |-> NoFile,
     dates |-> <<>>, query |-> <<>>, outs |-> <<>>, refreshed |-> FALSE]

Resp(op, b, status) == [NoResp EXCEPT !.op = op, !.b = b, !.status = status]

Init ==
    /\ now = 0
    /\ email_cache = <<>>
    /\ session = [b \in Browsers |-> NoSession]
    /\ nextUid = 1
    /\ trashed = {}
    /\ inflight = [b \in Browsers |-> NoUpload]
    /\ task = NoTask
    /\ resp = NoResp
    /\ lastPut = [u \in OwnerIds |-> NoPut]

(* the positions at which the clock may step during a handler that reads  *)
(* it up to n times; n + 1 stands for no step                             *)
StepPoints(n) == IF now < MaxTime THEN 1..(n + 1) ELSE {n + 1}

(* ------------------------------ helpers ------------------------------- *)

(* mutant: the refreshed credential is not stored in the session *)
get_gmail_service_from_session_NoStore(b, refreshOk) ==
    LET creds == session[b].credentials
    IN  IF creds = "none" THEN [status |-> 401, credentials |-> creds]
        ELSE IF creds = "valid" THEN [status |-> 200, credentials |-> creds]
        ELSE IF creds = "expired"
             THEN IF refreshOk THEN [status |-> 200, credentials |-> creds]
                  ELSE [status |-> 500, credentials |-> creds]
        ELSE [status |-> 401, credentials |-> creds]

(* get_gmail_service_from_session: the status it ends with (200: a client *)
(* is returned) and the credential it leaves in the session               *)
get_gmail_service_from_session(b, refreshOk) ==
    LET creds == session[b].credentials
    IN  IF creds = "none" THEN [status |-> 401, credentials |-> creds]
        ELSE IF creds = "valid" THEN [status |-> 200, credentials |-> creds]
        ELSE IF creds = "expired"
             THEN IF refreshOk THEN [status |-> 200, credentials |-> "valid"]
                  ELSE [status |-> 500, credentials |-> creds]
        ELSE [status |-> 401, credentials |-> creds]

(* get_or_create_user_id: uuid4 is a fresh identifier *)
get_or_create_user_id(b) ==
    IF session[b].user_id = 0 THEN nextUid ELSE session[b].user_id

(* _get_active_results *)
get_active_results(b, k) ==
    LET user_id == session[b].user_id
        n       == Len(email_cache)
        swept   == cleanup_expired_cache(email_cache, now, k)
        got     == get_user_emails(swept, user_id, Reading(now, k, n + 1))
        last    == IF HasKey(swept, user_id) THEN n + 1 ELSE n
    IN  IF user_id = 0
        THEN [cache |-> email_cache, found |-> FALSE, emails |-> <<>>,
              source |-> "None", now |-> now, removed |-> 0, evicted |-> "none"]
        ELSE [cache |-> got.cache, found |-> got.found, emails |-> got.emails,
              source |-> got.source,
              now |-> IF last = 0 THEN now ELSE Reading(now, k, last),
              removed |-> n - Len(swept),
              evicted |-> IF ~HasKey(email_cache, user_id) THEN "none"
                          ELSE IF ~HasKey(swept, user_id) THEN "sweep"
                          ELSE IF ~HasKey(got.cache, user_id) THEN "get"
                          ELSE "none"]

(* `if not emails` *)
Falsy(r) == ~r.found \/ r.emails = <<>>

(* ------------------------------ handlers ------------------------------ *)
(* A handler is an operator from the state and the request's inputs to    *)
(* the state it leaves, the response it gives and the put it made.        *)

Post(r) ==
    [now |-> now, cache |-> email_cache, session |-> session,
     nextUid |-> nextUid, trashed |-> trashed, resp |-> r, put |-> NoPut]

(* the response of a handler that went through _get_active_results *)
Read(op, b, k, got) ==
    [Post([Resp(op, b, 200) EXCEPT
             !.k = k, !.found = got.found, !.emails = got.emails,
             !.source = got.source, !.removed = got.removed,
             !.evicted = got.evicted])
       EXCEPT !.cache = got.cache, !.now = got.now]

(* emails with email["prediction"] = classify_email(...) for each *)
Classified(emails, outs) ==
    [i \in 1..Len(emails) |->
        [emails[i] EXCEPT !.prediction = StrCell(classify_email(outs[i]))]]

(* POST /fetch-emails *)
fetch_emails(b, refreshOk, dates, fetchOk, fetched, k) ==
    LET auth    == get_gmail_service_from_session(b, refreshOk)
        user_id == get_or_create_user_id(b)
        s2      == [session EXCEPT ![b].credentials = auth.credentials,
                                   ![b].user_id = user_id]
        uidNext == IF session[b].user_id = 0 THEN nextUid + 1 ELSE nextUid
        sd      == normalize(dates[1])
        ed      == normalize(dates[2])
        emails  == Classified(fetched.emails, fetched.outs)
        spam_count == Cardinality({i \in 1..Len(emails) :
                                      Lower(emails[i].prediction.s) = SPAM})
        t1      == Reading(now, k, 1)
        t2      == Reading(now, k, 2)
        r       == [Resp("fetch-emails", b, 200) EXCEPT
                      !.dates = dates,
                      !.refreshed = auth.credentials # session[b].credentials]
        entered == [Post(r) EXCEPT !.session = s2, !.nextUid = uidNext]
        called  == [entered EXCEPT !.resp.query = <<sd.value, ed.value>>]
    IN  IF auth.status # 200
        THEN Post([r EXCEPT !.status = auth.status])
        ELSE IF ~sd.ok \/ ~ed.ok
        THEN [entered EXCEPT !.resp.status = 400]
        ELSE IF ~fetchOk
        THEN [called EXCEPT !.resp.status = 500]
        ELSE IF emails = <<>>
        THEN called
        ELSE [called EXCEPT
                !.cache = store_user_emails(email_cache, user_id, emails,
                                            "model prediction", t1, t2),
                !.put = [some |-> TRUE, uid |-> user_id, emails |-> emails,
                         source |-> "model prediction"],
                !.now = t2,
                !.resp.k = k,
                !.resp.replaced = HasKey(email_cache, user_id),
                !.resp.total = Len(emails),
                !.resp.spam = spam_count]

(* mutant: every export is named spam_results.xlsx *)
download_results_OneName(b, k) ==
    LET got == get_active_results(b, k)
        p   == Read("download-results", b, k, got)
    IN  IF Falsy(got)
        THEN [p EXCEPT !.resp.status = 404]
        ELSE [p EXCEPT !.resp.total = Len(got.emails),
                       !.resp.export = ToExcel(got.emails),
                       !.resp.filename = SpamResults]

(* GET /download-results *)
download_results(b, k) ==
    LET got == get_active_results(b, k)
        p   == Read("download-results", b, k, got)
    IN  IF Falsy(got)
        THEN [p EXCEPT !.resp.status = 404]
        ELSE [p EXCEPT !.resp.total = Len(got.emails),
                       !.resp.export = ToExcel(got.emails),
                       !.resp.filename = IF got.source = "user corrected"
                                         THEN SpamResultsCorrected
                                         ELSE SpamResults]

(* mutant: `if not emails` taken as `if emails is None` *)
move_to_trash_NoneOnly(b, refreshOk, failAt, k) ==
    LET auth == get_gmail_service_from_session(b, refreshOk)
        s1   == [session EXCEPT ![b].credentials = auth.credentials]
        got  == get_active_results(b, k)
        p    == [Read("move-to-trash", b, k, got) EXCEPT
                   !.session = s1,
                   !.resp.refreshed = auth.credentials # session[b].credentials]
        spam_ids == SpamIds(got.emails)
        t    == move_emails_to_trash(spam_ids, failAt)
    IN  IF auth.status # 200
        THEN Post(Resp("move-to-trash", b, auth.status))
        ELSE IF ~got.found
        THEN [p EXCEPT !.resp.status = 404]
        ELSE IF spam_ids = <<>>
        THEN p
        ELSE [p EXCEPT !.trashed = trashed \cup {t.done[i] : i \in 1..Len(t.done)},
                       !.resp.status = IF t.raised THEN 500 ELSE 200,
                       !.resp.ids = spam_ids,
                       !.resp.calls = t.calls,
                       !.resp.done = t.done,
                       !.resp.moved = IF t.raised THEN 0 ELSE t.count]

(* POST /move-to-trash *)
move_to_trash(b, refreshOk, failAt, k) ==
    LET auth == get_gmail_service_from_session(b, refreshOk)
        s1   == [session EXCEPT ![b].credentials = auth.credentials]
        got  == get_active_results(b, k)
        p    == [Read("move-to-trash", b, k, got) EXCEPT
                   !.session = s1,
                   !.resp.refreshed = auth.credentials # session[b].credentials]
        spam_ids == SpamIds(got.emails)
        t    == move_emails_to_trash(spam_ids, failAt)
    IN  IF auth.status # 200
        THEN Post(Resp("move-to-trash", b, auth.status))
        ELSE IF Falsy(got)
        THEN [p EXCEPT !.resp.status = 404]
        ELSE IF spam_ids = <<>>
        THEN p
        ELSE [p EXCEPT !.trashed = trashed \cup {t.done[i] : i \in 1..Len(t.done)},
                       !.resp.status = IF t.raised THEN 500 ELSE 200,
                       !.resp.ids = spam_ids,
                       !.resp.calls = t.calls,
                       !.resp.done = t.done,
                       !.resp.moved = IF t.raised THEN 0 ELSE t.count]

(* mutant: a summary of live results renews their expiry *)
spam_summary_Renew(b, k) ==
    LET got == get_active_results(b, k)
        p   == Read("spam-summary", b, k, got)
        user_id == session[b].user_id
    IN  IF Falsy(got)
        THEN p
        ELSE [p EXCEPT !.resp.total = Len(got.emails),
                       !.resp.spam = SpamCount(got.emails),
                       !.cache = [got.cache EXCEPT
                                    ![IndexOf(got.cache, user_id)].expires_at =
                                        got.now + TTL]]

(* GET /spam-summary *)
spam_summary(b, k) ==
    LET got == get_active_results(b, k)
        p   == Read("spam-summary", b, k, got)
    IN  IF Falsy(got)
        THEN p
        ELSE [p EXCEPT !.resp.total = Len(got.emails),
                       !.resp.spam = SpamCount(got.emails)]

(* GET /cache-stats: the sweep, then one more reading per entry left *)
cache_stats(b, k) ==
    LET swept == cleanup_expired_cache(email_cache, now, k)
        last  == Len(email_cache) + Len(swept)
        r     == [Resp("cache-stats", b, 200) EXCEPT
                    !.k = k, !.total = Len(swept),
                    !.removed = Len(email_cache) - Len(swept)]
    IN  [Post(r) EXCEPT !.cache = swept,
                        !.now = IF last = 0 THEN now ELSE Reading(now, k, last)]

(* GET /debug-session *)
debug_session(b) ==
    Post([Resp("debug-session", b, 200) EXCEPT
            !.found = session[b].user_id # 0])

(* mutant: logout empties the cache *)
logout_ClearAll(b) ==
    [Post([Resp("logout", b, 303) EXCEPT !.removed = Len(email_cache)]) EXCEPT
       !.cache = <<>>,
       !.session = [session EXCEPT ![b] = NoSession]]

(* mutant: logout clears the session and leaves the cache *)
logout_SessionOnly(b) ==
    [Post(Resp("logout", b, 303)) EXCEPT
       !.session = [session EXCEPT ![b] = NoSession]]

(* POST /logout *)
logout(b) ==
    LET user_id == session[b].user_id
        hit     == user_id # 0 /\ HasKey(email_cache, user_id)
    IN  [Post([Resp("logout", b, 303) EXCEPT !.removed = IF hit THEN 1 ELSE 0]) EXCEPT
           !.cache = IF hit THEN DelKey(email_cache, user_id) ELSE email_cache,
           !.session = [session EXCEPT ![b] = NoSession]]

(* [c.strip().lower() for c in df.columns] *)
NormalHeader(header) == [i \in 1..Len(header) |-> Lower(Strip(header[i]))]

HasColumn(header, name) == \E i \in 1..Len(header) : header[i] = name

(* a dict built from a row keeps the last of the columns of one name *)
Column(header, name) ==
    CHOOSE i \in 1..Len(header) :
        header[i] = name /\ \A j \in (i + 1)..Len(header) : header[j] # name

(* df.to_dict(orient='records') *)
ToRecords(header, rows) ==
    [i \in 1..Len(rows) |->
        [id |-> rows[i][Column(header, IdPrediction[1])],
         prediction |-> rows[i][Column(header, IdPrediction[2])]]]

(* POST /upload-corrections up to `await file.read()`: status 0 stands    *)
(* for the request being suspended there                                  *)
upload_corrections_begin(b, filename) ==
    LET r == [Resp("upload-corrections", b, 0) EXCEPT !.file = filename]
    IN  IF ~EndsWith(Lower(filename), <<".","x","l","s","x">>)
        THEN Post([r EXCEPT !.status = 400])
        ELSE IF session[b].user_id = 0
        THEN Post([r EXCEPT !.status = 401])
        ELSE Post(r)

(* mutant: the headers are compared as they are in the sheet *)
upload_corrections_end_RawHeaders(b, user_id, filename, sheet, k) ==
    LET columns == sheet.header
        t1      == Reading(now, k, 1)
        t2      == Reading(now, k, 2)
        r       == [Resp("upload-corrections", b, 200) EXCEPT
                      !.file = filename, !.sheet = sheet]
    IN  IF ~(HasColumn(columns, IdPrediction[1]) /\ HasColumn(columns, IdPrediction[2]))
        THEN Post([r EXCEPT !.status = 400])
        ELSE LET corrected_emails == ToRecords(columns, sheet.rows)
             IN [Post(r) EXCEPT
                !.cache = store_user_emails(email_cache, user_id, corrected_emails,
                                            "user corrected", t1, t2),
                !.put = [some |-> TRUE, uid |-> user_id, emails |-> corrected_emails,
                         source |-> "user corrected"],
                !.now = t2,
                !.resp.k = k,
                !.resp.replaced = HasKey(email_cache, user_id),
                !.resp.total = Len(corrected_emails),
                !.resp.spam = SpamCount(corrected_emails)]

(* POST /upload-corrections from `await file.read()` on; user_id is the   *)
(* one the request read before it was suspended                           *)
upload_corrections_end(b, user_id, filename, sheet, k) ==
    LET columns == NormalHeader(sheet.header)
        corrected_emails == ToRecords(columns, sheet.rows)
        t1      == Reading(now, k, 1)
        t2      == Reading(now, k, 2)
        r       == [Resp("upload-corrections", b, 200) EXCEPT
                      !.file = filename, !.sheet = sheet]
    IN  IF ~(HasColumn(columns, IdPrediction[1]) /\ HasColumn(columns, IdPrediction[2]))
        THEN Post([r EXCEPT !.status = 400])
        ELSE [Post(r) EXCEPT
                !.cache = store_user_emails(email_cache, user_id, corrected_emails,
                                            "user corrected", t1, t2),
                !.put = [some |-> TRUE, uid |-> user_id, emails |-> corrected_emails,
                         source |-> "user corrected"],
                !.now = t2,
                !.resp.k = k,
                !.resp.replaced = HasKey(email_cache, user_id),
                !.resp.total = Len(corrected_emails),
                !.resp.spam = SpamCount(corrected_emails)]

(* ------------------------------ requests ------------------------------ *)

(* lastPut records, for each owner_id that has an entry, the messages and *)
(* the provenance of the latest put made for it                           *)
Apply(p) ==
    /\ now' = p.now
    /\ email_cache' = p.cache
    /\ session' = p.session
    /\ nextUid' = p.nextUid
    /\ trashed' = p.trashed
    /\ resp' = p.resp
    /\ lastPut' = [u \in OwnerIds |->
                     IF ~HasKey(p.cache, u) THEN NoPut
                     ELSE IF p.put.some /\ p.put.uid = u THEN p.put
                     ELSE lastPut[u]]

RefreshChoices(b) ==
    IF session[b].credentials = "expired" THEN BOOLEAN ELSE {TRUE}

(* time passes between requests *)
Tick ==
    /\ now < MaxTime
    /\ Apply([Post([NoResp EXCEPT !.op = "tick"]) EXCEPT !.now = now + 1])
    /\ UNCHANGED <<inflight, task>>

(* GET /callback *)
Callback(b, tokenOk) ==
    /\ Apply([Post(Resp("callback", b, IF tokenOk THEN 200 ELSE 500)) EXCEPT
                !.session = IF tokenOk
                            THEN [session EXCEPT ![b].credentials = "valid"]
                            ELSE session])
    /\ UNCHANGED <<inflight, task>>

(* the access token of a session runs out; whether it can be refreshed    *)
(* depends on the refresh token that was issued with it                   *)
TokenExpires(b, refreshable) ==
    /\ session[b].credentials = "valid"
    /\ Apply([Post(Resp("token-expires", b, 0)) EXCEPT
                !.session = [session EXCEPT ![b].credentials =
                               IF refreshable THEN "expired" ELSE "invalid"]])
    /\ UNCHANGED <<inflight, task>>

(* the session cookie reaches max_age and the browser drops it *)
SessionExpires(b) ==
    /\ session[b] # NoSession
    /\ Apply([Post(Resp("session-expires", b, 0)) EXCEPT
                !.session = [session EXCEPT ![b] = NoSession]])
    /\ UNCHANGED <<inflight, task>>

FetchEmails(b) ==
    \E refreshOk \in RefreshChoices(b) :
      LET ok == get_gmail_service_from_session(b, refreshOk).status = 200
      IN  /\ ok => (session[b].user_id # 0 \/ nextUid \in OwnerIds)
          /\ \E dates \in IF ok THEN DatePairs ELSE {<<D_DMY, D_YMD>>} :
             \E fetchOk \in IF ok /\ dates = <<D_DMY, D_YMD>> THEN BOOLEAN ELSE {FALSE} :
             \E fetched \in IF fetchOk THEN FetchCases
                            ELSE {[emails |-> <<>>, outs |-> <<>>]} :
             \E k \in IF fetched.emails # <<>> THEN StepPoints(2) ELSE {3} :
                /\ Apply(fetch_emails(b, refreshOk, dates, fetchOk, fetched, k))
                /\ UNCHANGED <<inflight, task>>

DownloadResults(b) ==
    \E k \in StepPoints(Len(email_cache) + 1) :
        /\ Apply(download_results(b, k))
        /\ UNCHANGED <<inflight, task>>

MoveToTrash(b) ==
    \E refreshOk \in RefreshChoices(b) :
    \E k \in StepPoints(Len(email_cache) + 1) :
    \E failAt \in 0..Len(SpamIds(get_active_results(b, k).emails)) :
        /\ Apply(move_to_trash(b, refreshOk, failAt, k))
        /\ UNCHANGED <<inflight, task>>

SpamSummary(b) ==
    \E k \in StepPoints(Len(email_cache) + 1) :
        /\ Apply(spam_summary(b, k))
        /\ UNCHANGED <<inflight, task>>

CacheStats(b) ==
    \E k \in StepPoints(2 * Len(email_cache)) :
        /\ Apply(cache_stats(b, k))
        /\ UNCHANGED <<inflight, task>>

DebugSession(b) ==
    /\ Apply(debug_session(b))
    /\ UNCHANGED <<inflight, task>>

Logout(b) ==
    /\ Apply(logout(b))
    /\ UNCHANGED <<inflight, task>>

(* POST /upload-corrections with no other request arriving while it is   *)
(* suspended in `await file.read()`                                      *)
UploadCorrections(b) ==
    /\ ~inflight[b].active
    /\ \E filename \in {XlsxName, CsvName} :
         LET p == upload_corrections_begin(b, filename)
         IN  IF p.resp.status # 0
             THEN Apply(p)
             ELSE \E f \in 1..Len(UploadSheets) :
                  \E k \in StepPoints(2) :
                     Apply(upload_corrections_end(b, session[b].user_id, filename,
                                                  UploadSheets[f], k))
    /\ UNCHANGED <<inflight, task>>

UploadBegin(b) ==
    /\ ~inflight[b].active
    /\ \E filename \in {XlsxName, CsvName} :
         LET p == upload_corrections_begin(b, filename)
         IN  /\ Apply(p)
             /\ inflight' = IF p.resp.status = 0
                            THEN [inflight EXCEPT ![b] =
                                    [active |-> TRUE, user_id |-> session[b].user_id,
                                     filename |-> filename]]
                            ELSE inflight
             /\ UNCHANGED task

UploadEnd(b) ==
    /\ inflight[b].active
    /\ \E f \in 1..Len(UploadSheets) :
       \E k \in StepPoints(2) :
         Apply(upload_corrections_end(b, inflight[b].user_id, inflight[b].filename,
                                      UploadSheets[f], k))
    /\ inflight' = [inflight EXCEPT ![b] = NoUpload]
    /\ UNCHANGED task

Next ==
    \/ Tick
    \/ \E b \in Browsers :
         \/ \E tokenOk \in BOOLEAN : Callback(b, tokenOk)
         \/ \E refreshable \in BOOLEAN : TokenExpires(b, refreshable)
         \/ SessionExpires(b)
         \/ FetchEmails(b)
         \/ DownloadResults(b)
         \/ UploadBegin(b)
         \/ UploadEnd(b)
         \/ MoveToTrash(b)
         \/ SpamSummary(b)
         \/ CacheStats(b)
         \/ DebugSession(b)
         \/ Logout(b)

Spec == Init /\ [][Next]_vars

(* POST /upload-corrections with the workbook the browser has just been   *)
(* sent by download-results, under the name it was sent with              *)
ReuploadExport(b) ==
    /\ ~inflight[b].active
    /\ resp.op = "download-results" /\ resp.b = b /\ resp.status = 200
    /\ LET p == upload_corrections_begin(b, resp.filename)
       IN  IF p.resp.status # 0
           THEN Apply(p)
           ELSE \E k \in StepPoints(2) :
                   Apply(upload_corrections_end(b, session[b].user_id, resp.filename,
                                                read_excel(resp.export), k))
    /\ UNCHANGED <<inflight, task>>

(* ----------------------------- event loop ----------------------------- *)
(* Every handler is a coroutine of the one event loop uvicorn.run starts: *)
(* another request runs only while the running one is suspended in an     *)
(* await or has returned.  GET /spam-summary is taken statement by        *)
(* statement; _get_active_results, cleanup_expired_cache and              *)
(* get_user_emails hold no await, so its only yield point is its return.  *)

(* mutant: the handler can be preempted between any two statements *)
YieldPoints_Threads == {"idle", "cleanup", "delete", "get", "expire"}

YieldPoints == {"idle"}

LoopFree == task.pc \in YieldPoints

(* a statement of the running request: the cache it leaves and the task *)
Statement(cache, t) ==
    /\ Apply([Post(resp) EXCEPT !.cache = cache])
    /\ task' = t
    /\ UNCHANGED inflight

(* the running request returns response r *)
Return(cache, r, collision) ==
    /\ Apply([Post(r) EXCEPT !.cache = cache])
    /\ task' = [NoTask EXCEPT !.collision = collision]
    /\ UNCHANGED inflight

(* `del email_cache[uid]` by the running request: what it meets *)
Meets(uid) ==
    IF ~HasKey(email_cache, uid) THEN "KeyError"
    ELSE IF now <= Entry(email_cache, uid).expires_at THEN "live"
    ELSE task.collision

(* spam_summary is entered: _get_active_results reads the session *)
SummaryBegin(b) ==
    /\ task.pc = "idle"
    /\ LoopFree
    /\ session[b].user_id # 0
    /\ Statement(email_cache,
                 [NoTask EXCEPT !.pc = "cleanup", !.b = b,
                                !.user_id = session[b].user_id])

(* cleanup_expired_cache: expired = [uid for ... if dt.now() > expires_at] *)
CleanupCollect ==
    /\ task.pc = "cleanup"
    /\ LET late == SelectSeq(email_cache, LAMBDA e : now > e.expires_at)
       IN  Statement(email_cache,
                     [task EXCEPT !.pc = "delete",
                                  !.expired = [i \in 1..Len(late) |-> late[i].uid]])

(* cleanup_expired_cache: for uid in expired: del email_cache[uid] *)
CleanupDelete ==
    /\ task.pc = "delete"
    /\ IF task.expired = <<>>
       THEN Statement(email_cache, [task EXCEPT !.pc = "get"])
       ELSE LET uid == Head(task.expired)
            IN  IF ~HasKey(email_cache, uid)
                THEN Return(email_cache, Resp("spam-summary", task.b, 500), "KeyError")
                ELSE Statement(DelKey(email_cache, uid),
                               [task EXCEPT !.expired = Tail(task.expired),
                                            !.collision = Meets(uid)])

(* get_user_emails up to its test of expires_at, and spam_summary's       *)
(* response when the entry is absent or live                              *)
GetCheck ==
    /\ task.pc = "get"
    /\ LET r == Resp("spam-summary", task.b, 200)
       IN  IF ~HasKey(email_cache, task.user_id)
           THEN Return(email_cache, r, task.collision)
           ELSE LET cached == Entry(email_cache, task.user_id)
                IN  IF now > cached.expires_at
                    THEN Statement(email_cache, [task EXCEPT !.pc = "expire"])
                    ELSE Return(email_cache,
                                [r EXCEPT !.found = TRUE, !.emails = cached.emails,
                                          !.source = cached.source,
                                          !.total = Len(cached.emails),
                                          !.spam = SpamCount(cached.emails)],
                                task.collision)

(* get_user_emails: del email_cache[user_id] of the expired entry *)
GetDelete ==
    /\ task.pc = "expire"
    /\ IF ~HasKey(email_cache, task.user_id)
       THEN Return(email_cache, Resp("spam-summary", task.b, 500), "KeyError")
       ELSE Return(DelKey(email_cache, task.user_id),
                   [Resp("spam-summary", task.b, 200) EXCEPT !.evicted = "get"],
                   Meets(task.user_id))

NextAsync ==
    \/ Tick
    \/ CleanupCollect
    \/ CleanupDelete
    \/ GetCheck
    \/ GetDelete
    \/ \E b \in Browsers :
         \/ SummaryBegin(b)
         \/ \E tokenOk \in BOOLEAN : LoopFree /\ Callback(b, tokenOk)
         \/ LoopFree /\ FetchEmails(b)
         \/ LoopFree /\ UploadBegin(b)
         \/ LoopFree /\ UploadEnd(b)
         \/ LoopFree /\ Logout(b)

SpecAsync == Init /\ [][NextAsync]_vars /\ WF_vars(NextAsync)

(* The cache and its readers and writers: requests are served one at a    *)
(* time, the session's credential stays valid until the session ends,     *)
(* and nothing is trashed.                                                *)
NextCache ==
    \/ Tick
    \/ \E b \in Browsers :
         \/ \E tokenOk \in BOOLEAN : Callback(b, tokenOk)
         \/ SessionExpires(b)
         \/ FetchEmails(b)
         \/ DownloadResults(b)
         \/ UploadCorrections(b)
         \/ SpamSummary(b)
         \/ CacheStats(b)
         \/ DebugSession(b)
         \/ Logout(b)

SpecCache == Init /\ [][NextCache]_vars

(* One session and the mailbox: the credential's life, the results the   *)
(* session caches and the trash requests on them.                         *)
NextMail ==
    \/ Tick
    \/ \E b \in Browsers :
         \/ \E tokenOk \in BOOLEAN : Callback(b, tokenOk)
         \/ \E refreshable \in BOOLEAN : TokenExpires(b, refreshable)
         \/ FetchEmails(b)
         \/ UploadCorrections(b)
         \/ MoveToTrash(b)

SpecMail == Init /\ [][NextMail]_vars

(* One browser's sessions, one after the other, and what each leaves in   *)
(* the cache: sign-in, fetch, download, trash, logout, session expiry.    *)
NextSession ==
    \/ Tick
    \/ \E b \in Browsers :
         \/ \E tokenOk \in BOOLEAN : Callback(b, tokenOk)
         \/ SessionExpires(b)
         \/ FetchEmails(b)
         \/ DownloadResults(b)
         \/ MoveToTrash(b)
         \/ Logout(b)

SpecSession == Init /\ [][NextSession]_vars

(* Two owners: the first has fetched or uploaded its results and its      *)
(* session has ended, leaving its entry in the cache; a second session    *)
(* then makes every request a session can make on its results.            *)
FirstOwnerPuts ==
    { [some |-> TRUE, uid |-> 1, source |-> "model prediction",
       emails |-> Classified(<<Msg(M1), Msg(M2)>>, <<SPAM, <<"n","o">> >>)],
      [some |-> TRUE, uid |-> 1, source |-> "user corrected",
       emails |-> ToRecords(NormalHeader(UploadSheets[1].header), UploadSheets[1].rows)] }

InitOwners ==
    /\ now = 0
    /\ session = [b \in Browsers |-> NoSession]
    /\ nextUid = 2
    /\ trashed = {}
    /\ inflight = [b \in Browsers |-> NoUpload]
    /\ task = NoTask
    /\ \E put \in FirstOwnerPuts :
         /\ email_cache = store_user_emails(<<>>, put.uid, put.emails, put.source, 0, 0)
         /\ lastPut = [u \in OwnerIds |-> IF u = put.uid THEN put ELSE NoPut]
    /\ resp = Resp("session-expires", "b1", 0)

NextOwners ==
    \/ Tick
    \/ \E b \in Browsers :
         \/ \E tokenOk \in BOOLEAN : Callback(b, tokenOk)
         \/ FetchEmails(b)
         \/ DownloadResults(b)
         \/ UploadCorrections(b)
         \/ MoveToTrash(b)
         \/ SpamSummary(b)
         \/ Logout(b)

SpecOwners == InitOwners /\ [][NextOwners]_vars

(* One session's results, exported, uploaded again and summarised.        *)
NextRoundTrip ==
    \/ Tick
    \/ \E b \in Browsers :
         \/ \E tokenOk \in BOOLEAN : Callback(b, tokenOk)
         \/ FetchEmails(b)
         \/ UploadCorrections(b)
         \/ DownloadResults(b)
         \/ ReuploadExport(b)
         \/ SpamSummary(b)

SpecRoundTrip == Init /\ [][NextRoundTrip]_vars

(* The selection of the messages to trash, applied to message lists with  *)
(* any predictions of a pool, whether or not a fetch or an upload can put *)
(* them in the cache.                                                     *)
MaxPreds == 4

PredictionPool ==
    { StrCell(SPAM), StrCell(<<"S","p","a","m"," ">>), StrCell(NOT_SPAM),
      StrCell(<<>>), StrCell(<<"\t","S","P","A","M">>), Absent, NaN }

PredictionLists == UNION { [1..n -> PredictionPool] : n \in 0..MaxPreds }

Numbered(preds) ==
    [i \in 1..Len(preds) |->
        [id |-> StrCell(<<"m", Digits[i + 1]>>), prediction |-> preds[i]]]

InitSelect ==
    /\ now = 0
    /\ email_cache = <<>>
    /\ session = [b \in Browsers |-> NoSession]
    /\ nextUid = 1
    /\ trashed = {}
    /\ inflight = [b \in Browsers |-> NoUpload]
    /\ task = NoTask
    /\ lastPut = [u \in OwnerIds |-> NoPut]
    /\ \E preds \in PredictionLists :
         resp = [NoResp EXCEPT !.op = "input", !.emails = Numbered(preds)]

Select ==
    /\ resp.op = "input"
    /\ resp' = [resp EXCEPT !.op = "select", !.ids = SpamIds(resp.emails),
                            !.spam = SpamCount(resp.emails)]
    /\ UNCHANGED <<now, email_cache, session, nextUid, trashed, inflight, task, lastPut>>

SpecSelect == InitSelect /\ [][Select]_vars

(* The date form of fetch-emails: a signed-in session submits one form,   *)
(* whose two fields are the same day written day-first and year-first,    *)
(* with or without leading zeros, whether or not the calendar has that    *)
(* day, or strings that are no date.                                      *)
Days == {1, 5, 10, 28, 29, 30, 31}

Months == 1..12

Years == {2023, 2024}

Numeral(n, padded) ==
    IF n < 10 /\ ~padded THEN <<Digits[n + 1]>> ELSE TwoDigits(n)

DMY(d, m, y, padded) ==
    Numeral(d, padded) \o <<"-">> \o Numeral(m, padded) \o <<"-">>
      \o TwoDigits(y \div 100) \o TwoDigits(y % 100)

YMD(d, m, y, padded) ==
    TwoDigits(y \div 100) \o TwoDigits(y % 100) \o <<"-">>
      \o Numeral(m, padded) \o <<"-">> \o Numeral(d, padded)

DateForms ==
    { <<DMY(d, m, y, p), YMD(d, m, y, q)>> :
        d \in Days, m \in Months, y \in Years, p \in BOOLEAN, q \in BOOLEAN }
      \cup { <<D_BAD, D_DMY>>, <<D_YMD, D_TEXT>>, <<D_TEXT, D_BAD>> }

InitDates ==
    /\ now = 0
    /\ email_cache = <<>>
    /\ session = [b \in Browsers |-> [NoSession EXCEPT !.credentials = "valid"]]
    /\ nextUid = 1
    /\ trashed = {}
    /\ inflight = [b \in Browsers |-> NoUpload]
    /\ task = NoTask
    /\ lastPut = [u \in OwnerIds |-> NoPut]
    /\ \E dates \in DateForms :
         resp = [NoResp EXCEPT !.op = "form", !.dates = dates]

SubmitForm(b) ==
    /\ resp.op = "form"
    /\ \E fetchOk \in BOOLEAN :
       \E fetched \in IF fetchOk THEN FetchCases
                      ELSE {[emails |-> <<>>, outs |-> <<>>]} :
       \E k \in IF fetched.emails # <<>> THEN StepPoints(2) ELSE {3} :
          Apply(fetch_emails(b, TRUE, resp.dates, fetchOk, fetched, k))
    /\ UNCHANGED <<inflight, task>>

SpecDates == InitDates /\ [][\E b \in Browsers : SubmitForm(b)]_vars

(* The classifier, applied to the messages of a fetch for any texts of a  *)
(* pool that the generation model may produce for them.                   *)
MaxOuts == 3

GeneratedTexts ==
    { SPAM, NOT_SPAM, <<" ","S","p","a","m","\n">>, <<"n","o">>, <<>>,
      <<"n","o","t"," ","s","p","a","m">> }

InitClassify ==
    /\ now = 0
    /\ email_cache = <<>>
    /\ session = [b \in Browsers |-> NoSession]
    /\ nextUid = 1
    /\ trashed = {}
    /\ inflight = [b \in Browsers |-> NoUpload]
    /\ task = NoTask
    /\ lastPut = [u \in OwnerIds |-> NoPut]
    /\ \E n \in 0..MaxOuts : \E outs \in [1..n -> GeneratedTexts] :
         resp = [NoResp EXCEPT !.op = "generated", !.outs = outs,
                               !.emails = [i \in 1..n |-> Msg(<<"m", Digits[i + 1]>>)]]

Classify ==
    /\ resp.op = "generated"
    /\ resp' = [resp EXCEPT !.op = "classify",
                            !.emails = Classified(resp.emails, resp.outs)]
    /\ UNCHANGED <<now, email_cache, session, nextUid, trashed, inflight, task, lastPut>>

SpecClassify == InitClassify /\ [][Classify]_vars

(* ------------------------------ claims -------------------------------- *)

ReadOps == {"download-results", "spam-summary", "move-to-trash"}

(* the elements of seq at the positions in S, in order *)
RECURSIVE Pick(_, _, _)
Pick(seq, S, i) ==
    IF i > Len(seq) THEN <<>>
    ELSE (IF i \in S THEN <<seq[i]>> ELSE <<>>) \o Pick(seq, S, i + 1)

OthersOf(cache, u) == SelectSeq(cache, LAMBDA e : e.uid # u)

IsPrefix(p, q) == Len(p) <= Len(q) /\ SubSeq(q, 1, Len(p)) = p

Range(seq) == {seq[i] : i \in 1..Len(seq)}

(* C1: a get that follows a put for the same owner_id, with no other put  *)
(* or remove in between and with the get's clock reading <= expires_at,   *)
(* returns exactly the messages and the provenance passed to that put.    *)
C1_GetAfterPut ==
    [][\A b \in Browsers :
         LET u == session[b].user_id
             t == Reading(now, resp'.k, Len(email_cache) + 1)
         IN  (/\ resp'.op \in ReadOps /\ resp'.b = b /\ resp'.k > 0
              /\ u # 0 /\ HasKey(email_cache, u)
              /\ t <= Entry(email_cache, u).expires_at)
             => (/\ resp'.found
                 /\ lastPut[u].some
                 /\ resp'.emails = lastPut[u].emails
                 /\ resp'.source = lastPut[u].source)]_vars

C1_Witness ==
    /\ resp.op = "download-results" /\ resp.found
    /\ resp.source = "user corrected" /\ Len(resp.emails) = 2
    /\ now = Entry(email_cache, session["b1"].user_id).expires_at

(* C2: a get whose clock reading is strictly after the entry's expires_at *)
(* returns (absent, absent), and after it the cache holds no entry for    *)
(* that owner_id.                                                         *)
C2_GetAfterExpiry ==
    [][\A b \in Browsers :
         LET u == session[b].user_id
             t == Reading(now, resp'.k, Len(email_cache) + 1)
         IN  (/\ resp'.op \in ReadOps /\ resp'.b = b /\ resp'.k > 0
              /\ u # 0 /\ HasKey(email_cache, u)
              /\ t > Entry(email_cache, u).expires_at)
             => (/\ ~resp'.found
                 /\ resp'.emails = <<>>
                 /\ ~HasKey(email_cache', u))]_vars

C2_Witness ==
    /\ resp.op \in ReadOps /\ resp.evicted = "get" /\ ~resp.found
    /\ ~HasKey(email_cache, session["b1"].user_id)

(* C3: the cache holds at most one entry per owner_id, and every entry    *)
(* holds the messages and the provenance of the latest put for its owner: *)
(* they are what get returns and what download-results, spam-summary and  *)
(* move-to-trash work on.                                                 *)
C3_OneEntryLatestPut ==
    /\ \A i, j \in 1..Len(email_cache) :
         email_cache[i].uid = email_cache[j].uid => i = j
    /\ \A i \in 1..Len(email_cache) :
         LET e == email_cache[i]
         IN  /\ lastPut[e.uid].some
             /\ e.emails = lastPut[e.uid].emails
             /\ e.source = lastPut[e.uid].source
    /\ \A b \in Browsers :
         (resp.op \in ReadOps /\ resp.b = b /\ resp.found)
         => LET put == lastPut[session[b].user_id]
            IN  /\ resp.emails = put.emails
                /\ resp.source = put.source
                /\ resp.op = "download-results" /\ resp.status = 200
                   => resp.total = Len(put.emails)
                /\ resp.op = "spam-summary" /\ put.emails # <<>>
                   => resp.total = Len(put.emails) /\ resp.spam = SpamCount(put.emails)
                /\ resp.op = "move-to-trash" /\ resp.calls # <<>>
                   => resp.ids = SpamIds(put.emails)

C3_Witness ==
    /\ resp.op = "upload-corrections" /\ resp.status = 200 /\ resp.replaced
    /\ Len(email_cache) = 2

(* C4: every cache entry has expires_at = created_at + TTL exactly, and   *)
(* no read changes the expires_at or created_at of an entry it leaves in  *)
(* the cache.                                                             *)
C4_ExpiresAtIsCreatedAtPlusTTL ==
    [][/\ \A i \in 1..Len(email_cache') :
            email_cache'[i].expires_at = email_cache'[i].created_at + TTL
       /\ resp'.op \in ReadOps \cup {"cache-stats"}
            => \A i \in 1..Len(email_cache') :
                 \E j \in 1..Len(email_cache) : email_cache[j] = email_cache'[i]]_vars

(* C5: a sweep removes exactly the entries whose expires_at is before the *)
(* clock reading the sweep takes for them, and leaves the others          *)
(* unchanged and in order (for a reading request, which goes on to get    *)
(* the session's own entry: the entries of the other owners).             *)
C5_SweepRemovesExpired ==
    [][LET live == {i \in 1..Len(email_cache) :
                      Reading(now, resp'.k, i) <= email_cache[i].expires_at}
           kept == Pick(email_cache, live, 1)
       IN  /\ resp'.op = "cache-stats" => email_cache' = kept
           /\ \A b \in Browsers :
                (/\ resp'.op \in ReadOps /\ resp'.b = b /\ resp'.k > 0
                 /\ session[b].user_id # 0)
                => OthersOf(email_cache', session[b].user_id)
                     = OthersOf(kept, session[b].user_id)]_vars

C5_Witness ==
    /\ resp.op = "cache-stats" /\ resp.removed = 1 /\ Len(email_cache) = 1
    /\ email_cache[1].expires_at = now

(* C6: after logout the session holds neither credential nor owner_id,    *)
(* the cache holds no entry for the owner_id the session had, the entries *)
(* of the other owners are unchanged, and a download-results or           *)
(* move-to-trash that follows from that browser returns no results.       *)
C6_Logout ==
    [][\A b \in Browsers :
         /\ (resp'.op = "logout" /\ resp'.b = b)
            => /\ session'[b] = NoSession
               /\ ~HasKey(email_cache', session[b].user_id)
               /\ email_cache' = OthersOf(email_cache, session[b].user_id)
         /\ (/\ resp.op = "logout" /\ resp.b = b /\ resp'.b = b
             /\ resp'.op \in {"download-results", "move-to-trash"})
            => /\ ~resp'.found
               /\ resp'.emails = <<>>
               /\ resp'.calls = <<>>
               /\ resp'.status \in {401, 404}]_vars

C6_Witness ==
    /\ resp.op = "logout" /\ resp.removed = 1 /\ Len(email_cache) = 1
    /\ now <= email_cache[1].expires_at

(* C7: after a fetch-emails whose fetch returns 0 messages the response   *)
(* reports total = 0 and spam = 0, and a download-results that follows by *)
(* the same session answers not-found, whatever the session did before.   *)
C7_EmptyFetchThenNotFound ==
    [][\A b \in Browsers :
         (/\ resp.op = "fetch-emails" /\ resp.b = b /\ resp.status = 200
          /\ resp.total = 0 /\ resp.spam = 0
          /\ resp'.op = "download-results" /\ resp'.b = b)
         => resp'.status = 404]_vars

(* whether move-to-trash of browser b, in the step at hand, finds a live  *)
(* entry: the session has an owner_id, the cache an entry for it, and the *)
(* request's clock reading is not after its expires_at                    *)
LiveFor(b) ==
    LET u == session[b].user_id
        t == IF resp'.k > 0 THEN Reading(now, resp'.k, Len(email_cache) + 1) ELSE now
    IN  /\ u # 0
        /\ HasKey(email_cache, u)
        /\ t <= Entry(email_cache, u).expires_at

(* the session's credential is valid, or expired and refreshed by the step *)
UsableCredential(b) ==
    \/ session[b].credentials = "valid"
    \/ session[b].credentials = "expired" /\ session'[b].credentials = "valid"

(* C8 as claimed: move-to-trash answers not-found when the session has no *)
(* live entry; success with moved = 0 and no trash call when the live     *)
(* entry has no spam message; otherwise it submits exactly the selected   *)
(* spam ids, in cache order, and reports their count.                     *)
C8_TrashAsClaimed ==
    [][\A b \in Browsers :
         (resp'.op = "move-to-trash" /\ resp'.b = b)
         => LET sel == SpamIds(Entry(email_cache, session[b].user_id).emails)
            IN  /\ ~LiveFor(b) => resp'.status = 404
                /\ (LiveFor(b) /\ sel = <<>>)
                   => resp'.status = 200 /\ resp'.moved = 0 /\ resp'.calls = <<>>
                /\ (LiveFor(b) /\ sel # <<>>)
                   => resp'.calls = sel /\ resp'.moved = Len(sel)]_vars

(* C8 amended: without a usable credential move-to-trash fails (401, or   *)
(* 500 when the refresh fails) with no trash call and the cache as it     *)
(* was.  With one, it answers not-found when the session has no live      *)
(* entry or the live entry's message list is empty; success with          *)
(* moved = 0 and no trash call when the live entry has messages and none  *)
(* is spam; otherwise it issues trash calls for the selected spam ids in  *)
(* cache order, up to the first that fails, and reports their count when  *)
(* none fails, 500 when one does.                                         *)
C8_TrashAmended ==
    [][\A b \in Browsers :
         (resp'.op = "move-to-trash" /\ resp'.b = b)
         => LET emails == Entry(email_cache, session[b].user_id).emails
                sel    == SpamIds(emails)
            IN  /\ ~UsableCredential(b)
                   => /\ resp'.status \in {401, 500}
                      /\ resp'.calls = <<>>
                      /\ email_cache' = email_cache
                /\ (UsableCredential(b) /\ ~LiveFor(b))
                   => resp'.status = 404 /\ resp'.calls = <<>>
                /\ (UsableCredential(b) /\ LiveFor(b) /\ emails = <<>>)
                   => resp'.status = 404 /\ resp'.calls = <<>>
                /\ (UsableCredential(b) /\ LiveFor(b) /\ emails # <<>> /\ sel = <<>>)
                   => resp'.status = 200 /\ resp'.moved = 0 /\ resp'.calls = <<>>
                /\ (UsableCredential(b) /\ LiveFor(b) /\ sel # <<>>)
                   => /\ resp'.calls # <<>>
                      /\ IsPrefix(resp'.calls, sel)
                      /\ \/ /\ resp'.status = 200
                            /\ resp'.calls = sel
                            /\ resp'.moved = Len(sel)
                         \/ resp'.status = 500 /\ resp'.moved = 0]_vars

C8_Witness ==
    /\ resp.op = "move-to-trash" /\ resp.status = 200 /\ resp.moved = 2
    /\ resp.calls = <<M2, M1>>
    /\ resp.source = "user corrected"

(* the predictions of the pool that are spam once trimmed and lower-cased *)
SpamOfPool ==
    { StrCell(SPAM), StrCell(<<"S","p","a","m"," ">>), StrCell(<<"\t","S","P","A","M">>) }

(* C9: the messages selected for trashing are exactly those whose         *)
(* prediction, trimmed and lower-cased, is "spam": of the predictions     *)
(* "spam", "Spam ", "not-spam", "" the first two; never a message with no *)
(* prediction.                                                            *)
C9_SelectionIsTrimmedLowerSpam ==
    resp.op = "select"
    => LET spam == {i \in 1..Len(resp.emails) : resp.emails[i].prediction \in SpamOfPool}
           sel  == Pick(resp.emails, spam, 1)
       IN  /\ resp.ids = [i \in 1..Len(sel) |-> sel[i].id.s]
           /\ resp.spam = Cardinality(spam)

C9_Witness ==
    /\ resp.op = "select"
    /\ resp.emails = Numbered(<<StrCell(SPAM), StrCell(<<"S","p","a","m"," ">>),
                                StrCell(NOT_SPAM), StrCell(<<>>)>>)
    /\ resp.ids = << <<"m","1">>, <<"m","2">> >>

(* C10: trash(ids) issues one trash call per id in list order.  If every  *)
(* call succeeds it returns len(ids) and all ids are trashed; if the k-th *)
(* call is the first to fail it raises, exactly the first k-1 ids are     *)
(* newly trashed and stay trashed, and no call is issued after the k-th.  *)
C10_TrashLoop ==
    [][/\ trashed \subseteq trashed'
       /\ (resp'.op = "move-to-trash" /\ resp'.ids # <<>>)
          => LET ids == resp'.ids
             IN  \/ /\ resp'.status = 200
                    /\ resp'.calls = ids
                    /\ resp'.done = ids
                    /\ resp'.moved = Len(ids)
                    /\ trashed' = trashed \cup Range(ids)
                 \/ /\ resp'.status = 500
                    /\ \E k \in 1..Len(ids) :
                         /\ resp'.calls = SubSeq(ids, 1, k)
                         /\ resp'.done = SubSeq(ids, 1, k - 1)
                         /\ trashed' = trashed \cup Range(SubSeq(ids, 1, k - 1))
       /\ (resp'.op = "move-to-trash" /\ resp'.ids = <<>>)
          => trashed' = trashed /\ resp'.calls = <<>>]_vars

C10_Witness ==
    /\ resp.op = "move-to-trash" /\ resp.status = 500
    /\ resp.ids = <<M2, M1>>
    /\ resp.calls = <<M2, M1>> /\ resp.done = <<M2>>
    /\ M2 \in trashed /\ M1 \notin trashed

(* C11 as claimed: download-results answers not-found exactly when the    *)
(* session has no live cache entry; with a live entry it sends an export  *)
(* with one row per cached message, named as corrected results exactly    *)
(* when the entry's provenance is user-corrected.                         *)
C11_DownloadAsClaimed ==
    [][\A b \in Browsers :
         (resp'.op = "download-results" /\ resp'.b = b)
         => LET e == Entry(email_cache, session[b].user_id)
            IN  /\ resp'.status = 404 <=> ~LiveFor(b)
                /\ LiveFor(b)
                   => /\ resp'.status = 200
                      /\ Len(resp'.export.rows) = Len(e.emails)
                      /\ resp'.filename = SpamResultsCorrected
                           <=> e.source = "user corrected"]_vars

(* C11 amended: download-results answers not-found exactly when the       *)
(* session has no live cache entry or its live entry holds no message;    *)
(* with a live entry of at least one message it sends an export with one  *)
(* row per cached message, carrying the message's id, in cache order,     *)
(* named as corrected results exactly when the entry's provenance is      *)
(* user-corrected.                                                        *)
C11_DownloadAmended ==
    [][\A b \in Browsers :
         (resp'.op = "download-results" /\ resp'.b = b)
         => LET e == Entry(email_cache, session[b].user_id)
            IN  /\ resp'.status \in {200, 404}
                /\ resp'.status = 404 <=> (~LiveFor(b) \/ e.emails = <<>>)
                /\ resp'.status = 404 => resp'.export = NoFile
                /\ (LiveFor(b) /\ e.emails # <<>>)
                   => /\ Len(resp'.export.rows) = Len(e.emails)
                      /\ \A i \in 1..Len(e.emails) :
                           resp'.export.rows[i][1].s = e.emails[i].id.s
                      /\ resp'.filename \in {SpamResults, SpamResultsCorrected}
                      /\ resp'.filename = SpamResultsCorrected
                           <=> e.source = "user corrected"]_vars

C11_Witness ==
    /\ resp.op = "download-results" /\ resp.status = 200
    /\ resp.filename = SpamResultsCorrected
    /\ Len(resp.export.rows) = 2
    /\ resp.source = "user corrected"

(* the uploads of the model, told apart by what the user sent: the names  *)
(* that end in .xlsx whatever the case of their letters, the sheets that  *)
(* have an id and a prediction column once headers are trimmed and        *)
(* lower-cased, and the rows of each as id and prediction                 *)
XlsxNames == { XlsxName }

SheetsWithBothColumns == { UploadSheets[1], UploadSheets[2], UploadSheets[3] }

RowsOf(sheet) ==
    IF sheet = UploadSheets[1]
    THEN << [id |-> StrCell(M2), prediction |-> StrCell(<<"S","p","a","m"," ">>)],
            [id |-> StrCell(M1), prediction |-> StrCell(SPAM)] >>
    ELSE IF sheet = UploadSheets[2]
    THEN << [id |-> StrCell(M1), prediction |-> NaN] >>
    ELSE << >>

(* C12: upload-corrections is rejected when the file name does not end in *)
(* .xlsx (400), when the session has no owner_id (401), or when the sheet *)
(* lacks column id or prediction, headers compared trimmed and            *)
(* lower-cased (400), and a rejection leaves the cache unchanged; an      *)
(* accepted upload replaces the owner's entry with the uploaded rows and  *)
(* provenance user-corrected, and leaves the other owners' entries.       *)
C12_UploadCorrections ==
    [][\A b \in Browsers :
         (resp'.op = "upload-corrections" /\ resp'.b = b)
         => LET u == session[b].user_id
                rejected == \/ resp'.file \notin XlsxNames
                            \/ u = 0
                            \/ resp'.sheet \notin SheetsWithBothColumns
            IN  /\ resp'.file \notin XlsxNames => resp'.status = 400
                /\ (resp'.file \in XlsxNames /\ u = 0) => resp'.status = 401
                /\ (resp'.file \in XlsxNames /\ u # 0
                      /\ resp'.sheet \notin SheetsWithBothColumns)
                   => resp'.status = 400
                /\ rejected => email_cache' = email_cache
                /\ ~rejected
                   => /\ resp'.status = 200
                      /\ HasKey(email_cache', u)
                      /\ Entry(email_cache', u).emails = RowsOf(resp'.sheet)
                      /\ Entry(email_cache', u).source = "user corrected"
                      /\ OthersOf(email_cache', u) = OthersOf(email_cache, u)
                      /\ Len(email_cache') = Len(OthersOf(email_cache, u)) + 1
                      /\ session' = session]_vars

C12_Witness ==
    /\ resp.op = "upload-corrections" /\ resp.status = 200 /\ resp.replaced
    /\ resp.sheet = UploadSheets[1]
    /\ Entry(email_cache, session["b1"].user_id).emails = RowsOf(UploadSheets[1])
    /\ Entry(email_cache, session["b1"].user_id).source = "user corrected"

(* the days the calendar gives month m of year y, for the years of Years *)
CalendarDays(m, y) ==
    IF m = 2 /\ y = 2024 THEN 29
    ELSE <<31, 28, 31, 30, 31, 30, 31, 31, 30, 31, 30, 31>>[m]

(* C13: fetch-emails maps a DD-MM-YYYY string and the YYYY-MM-DD string   *)
(* of the same calendar date to the same canonical value, which it passes *)
(* to the Mail Client as start and as end; a form with a string that      *)
(* parses in neither format ("2024-13-40", "not-a-date", a day the        *)
(* calendar lacks) fails with 400 and no fetch, no classification and no  *)
(* cache write.                                                           *)
C13_DateNormalization ==
    [][\A b \in Browsers :
         (resp'.op = "fetch-emails" /\ resp'.b = b /\ UsableCredential(b))
         => LET rejected == /\ resp'.status = 400
                            /\ resp'.query = <<>>
                            /\ resp'.total = 0 /\ resp'.spam = 0
                            /\ email_cache' = email_cache
                            /\ lastPut' = lastPut
            IN  /\ \A d \in Days, m \in Months, y \in Years, p \in BOOLEAN, q \in BOOLEAN :
                     resp'.dates = <<DMY(d, m, y, p), YMD(d, m, y, q)>>
                     => IF d <= CalendarDays(m, y)
                        THEN /\ resp'.status # 400
                             /\ Len(resp'.query) = 2
                             /\ resp'.query[1] = resp'.query[2]
                             /\ resp'.query[1] = DMY(d, m, y, TRUE)
                        ELSE rejected
                /\ (\E i \in 1..2 : resp'.dates[i] \in {D_BAD, D_TEXT}) => rejected]_vars

C13_Witness ==
    /\ resp.op = "fetch-emails" /\ resp.status = 200
    /\ resp.dates = <<D_DMY, D_YMD>>
    /\ resp.query = <<D_DMY, D_DMY>>
    /\ resp.total = 2

(* C14: whatever the message and whatever text the model generates,       *)
(* classify_email returns one of the two labels "spam" and "not spam".    *)
C14_LabelIsSpamOrNotSpam ==
    resp.op = "classify"
    => \A i \in 1..Len(resp.emails) :
         resp.emails[i].prediction.s \in {SPAM, <<"n","o","t"," ","s","p","a","m">>}

(* C15: classify labels a message spam only when the model's output,      *)
(* trimmed and lower-cased, is exactly "spam"; an output of "not-spam"    *)
(* yields the label not-spam, and any other output yields not-spam.       *)
C15_ExactToken ==
    resp.op = "classify"
    => \A i \in 1..Len(resp.emails) :
         resp.emails[i].prediction.s =
            IF resp.outs[i] \in {SPAM, <<" ","S","p","a","m","\n">>}
            THEN SPAM ELSE NOT_SPAM

(* C16: uploading, unchanged, the workbook download-results has produced  *)
(* from a cache entry yields a cache entry with as many messages and as   *)
(* many spam messages as the entry exported, and that is the count the    *)
(* spam-summary that follows reports.                                     *)
C16_ExportImportRoundTrip ==
    [][\A b \in Browsers :
         /\ (/\ resp.op = "download-results" /\ resp.b = b /\ resp.status = 200
             /\ resp'.op = "upload-corrections" /\ resp'.b = b
             /\ resp'.file = resp.filename
             /\ resp'.sheet = read_excel(resp.export))
            => LET e == Entry(email_cache', session[b].user_id)
               IN  /\ resp'.status = 200
                   /\ e.source = "user corrected"
                   /\ Len(e.emails) = Len(resp.emails)
                   /\ SpamCount(e.emails) = SpamCount(resp.emails)
                   /\ resp'.spam = SpamCount(resp.emails)
         /\ (/\ resp.op = "upload-corrections" /\ resp.b = b /\ resp.status = 200
             /\ resp'.op = "spam-summary" /\ resp'.b = b /\ resp'.found)
            => resp'.spam = resp.spam /\ resp'.total = resp.total]_vars

C16_Witness ==
    /\ resp.op = "upload-corrections" /\ resp.status = 200
    /\ resp.file = SpamResults
    /\ resp.sheet.header = column_order
    /\ resp.total = 2 /\ resp.spam = 1

(* C17: spam-summary, cache-stats and debug-session add no cache entry,   *)
(* change no entry's messages, provenance or timestamps, and leave the    *)
(* session, the owner_id counter and the mailbox as they were; all they   *)
(* can do to the cache is remove entries whose expires_at is past, which  *)
(* debug-session never does.                                              *)
C17_ReadOnlyProjections ==
    [][resp'.op \in {"spam-summary", "cache-stats", "debug-session"}
       => LET kept == {i \in 1..Len(email_cache) :
                         \E j \in 1..Len(email_cache') : email_cache'[j] = email_cache[i]}
          IN  /\ session' = session
              /\ nextUid' = nextUid
              /\ trashed' = trashed
              /\ email_cache' = Pick(email_cache, kept, 1)
              /\ \A i \in (1..Len(email_cache)) \ kept :
                    now' > email_cache[i].expires_at
              /\ resp'.op = "debug-session" => email_cache' = email_cache]_vars

C17_Witness ==
    /\ resp.op = "spam-summary" /\ resp.found /\ resp.removed = 1
    /\ Len(email_cache) = 1
    /\ email_cache[1].uid = session["b1"].user_id

C20_NoPutAfterLogout ==
    [][\A b \in Browsers :
         (/\ inflight[b].active /\ ~inflight'[b].active
          /\ session[b].user_id # inflight[b].user_id)
         => ~HasKey(email_cache', inflight[b].user_id)]_vars

OwnerOps ==
    {"fetch-emails", "download-results", "upload-corrections",
     "move-to-trash", "spam-summary", "logout"}

(* C21: owner isolation.  A request of A's session leaves every entry of  *)
(* another owner_id that is still live when the request ends exactly as   *)
(* it was, and adds or changes no entry of another owner_id; and what it  *)
(* returns to A (messages, export, totals, spam counts, ids to trash) is   *)
(* given by A's own entry and the request's inputs alone: by A's live     *)
(* entry when it has one, by nothing when it has none, whatever the other *)
(* owners' entries hold.                                                  *)
C21_OwnerIsolation ==
    [][\A b \in Browsers :
         (resp'.op \in OwnerOps /\ resp'.b = b)
         => LET u    == session[b].user_id
                own  == {u, session'[b].user_id}
                mine == IF LiveFor(b) THEN Entry(email_cache, u).emails ELSE <<>>
            IN  /\ \A i \in 1..Len(email_cache) :
                     (email_cache[i].uid \notin own /\ now' <= email_cache[i].expires_at)
                     => \E j \in 1..Len(email_cache') : email_cache'[j] = email_cache[i]
                /\ \A j \in 1..Len(email_cache') :
                     email_cache'[j].uid \notin own
                     => \E i \in 1..Len(email_cache) : email_cache[i] = email_cache'[j]
                /\ resp'.emails = IF resp'.op \in ReadOps /\ resp'.k > 0 THEN mine ELSE <<>>
                /\ resp'.op = "download-results"
                   => /\ resp'.status = IF mine = <<>> THEN 404 ELSE 200
                      /\ resp'.total = Len(mine)
                      /\ resp'.export = IF mine = <<>> THEN NoFile ELSE ToExcel(mine)
                /\ resp'.op = "spam-summary"
                   => resp'.total = Len(mine) /\ resp'.spam = SpamCount(mine)
                /\ resp'.op = "move-to-trash"
                   => /\ IsPrefix(resp'.calls, SpamIds(mine))
                      /\ resp'.moved \in {0, Len(SpamIds(mine))}
                /\ (resp'.op = "upload-corrections" /\ resp'.status = 200)
                   => /\ resp'.total = Len(RowsOf(resp'.sheet))
                      /\ resp'.spam = SpamCount(RowsOf(resp'.sheet))
                /\ (resp'.op = "fetch-emails" /\ resp'.total > 0)
                   => resp'.total = Len(Entry(email_cache', session'[b].user_id).emails)]_vars

C21_Witness ==
    /\ resp.op = "download-results" /\ resp.status = 200
    /\ Len(email_cache) = 2
    /\ email_cache[1].uid = 1 /\ now <= email_cache[1].expires_at
    /\ email_cache[1].source = "user corrected"
    /\ session["b1"].user_id = 2
    /\ resp.emails = Entry(email_cache, 2).emails
    /\ resp.source = "model prediction"

====
